---------------------------- MODULE Spec2Model ----------------------------
(***************************************************************************)
(* Model of the two chat pipelines of the repository:                      *)
(*   variant "ocr"    : src/alice_paralegal_pipeline.py (Tesseract OCR)    *)
(*   variant "vision" : src/legal_vision_pipeline.py   (llava request)     *)
(* One invocation of Pipeline.pipe is followed from the first next() of    *)
(* the returned generator to its end.  A Python string is a sequence of    *)
(* tokens, an f-string is the concatenation of its pieces, and every       *)
(* yielded fragment is recorded together with the yield statement that     *)
(* produced it.                                                            *)
(***************************************************************************)
EXTENDS Integers, Sequences, FiniteSets, TLC

VARIABLES
    variant,        \* which of the two source files runs
    tesseract,      \* TESSERACT_AVAILABLE (module global of the ocr variant)
    user_message,   \* parameter of pipe
    messages,       \* parameter of pipe
    pc,             \* position of the generator
    images,         \* local of pipe
    text_content,   \* local of pipe
    all_text,       \* local of pipe (ocr variant): per-image OCR results
    stage1_text,    \* combined_ocr / image_description
    out,            \* fragments yielded so far, in order
    calls,          \* OCR helper calls and HTTP requests made so far, in order
    nlines,         \* lines read from the streaming response so far
    exc,            \* exception that left pipe, "" if none
    stream_exc      \* exception caught by the streamer, "" if none

vars == <<variant, tesseract, user_message, messages, pc, images, text_content,
          all_text, stage1_text, out, calls, nlines, exc, stream_exc>>

\* ------------------------------------------------------------------ bounds
\* longest list content of a message
MaxParts == 2
\* most lines the backend delivers on one streaming response
MaxLines == 2

\* ------------------------------------------------------- valves (defaults)
VISION_MODEL == "llava:13b"
REASONING_MODEL == "deepseek-r1:8b"

\* ------------------------------------------------------------ Python values
\* variant of Join that leaves empty parts out (a filter before the join)
RECURSIVE JoinSkipEmpty(_, _)
JoinSkipEmpty(parts, sep) ==
    IF Len(parts) = 0 THEN <<>>
    ELSE IF parts[1] = <<>> THEN JoinSkipEmpty(Tail(parts), sep)
    ELSE LET rest == JoinSkipEmpty(Tail(parts), sep) IN
         IF rest = <<>> THEN parts[1] ELSE parts[1] \o <<sep>> \o rest

\* str.join: the parts with the separator between neighbours
RECURSIVE Join(_, _)
Join(parts, sep) ==
    IF Len(parts) = 0 THEN <<>>
    ELSE IF Len(parts) = 1 THEN parts[1]
    ELSE parts[1] \o <<sep>> \o Join(Tail(parts), sep)

\* index of the first "," of a string, 0 if there is none
RECURSIVE FirstComma(_, _)
FirstComma(s, i) ==
    IF i > Len(s) THEN 0
    ELSE IF s[i] = "," THEN i
    ELSE FirstComma(s, i + 1)

\* url.split(",", 1): at most two pieces
SplitOnce(s) ==
    LET k == FirstComma(s, 1) IN
    IF k = 0 THEN <<s>>
    ELSE <<SubSeq(s, 1, k - 1), SubSeq(s, k + 1, Len(s))>>

\* url.split(","): every piece
RECURSIVE SplitAll(_)
SplitAll(s) ==
    LET k == FirstComma(s, 1) IN
    IF k = 0 THEN <<s>>
    ELSE <<SubSeq(s, 1, k - 1)>> \o SplitAll(SubSeq(s, k + 1, Len(s)))

\* url.startswith("data:image"): the scheme and media type are one token
DataImageHeads == {"data:image/png;base64", "data:image"}
StartsWithDataImage(url) == Len(url) >= 1 /\ url[1] \in DataImageHeads

\* base64.b64decode(s) with validate=False (binascii.a2b_base64, non-strict):
\* characters outside the alphabet are skipped, a completed pad sequence ends
\* the decoding, a dangling quad raises binascii.Error (a ValueError).
\* data is the sequence of alphabet characters decoded (it fixes the bytes).
B64Alphabet == {"A", "B"}
RECURSIVE B64Scan(_, _, _, _, _)
B64Scan(s, i, quad_pos, pads, acc) ==
    IF i > Len(s) THEN [ok |-> quad_pos = 0, data |-> acc]
    ELSE IF s[i] = "=" THEN
        IF quad_pos >= 2 /\ quad_pos + pads + 1 >= 4
        THEN [ok |-> TRUE, data |-> acc]
        ELSE B64Scan(s, i + 1, quad_pos,
                     IF quad_pos >= 2 THEN pads + 1 ELSE pads, acc)
    ELSE IF s[i] \notin B64Alphabet THEN B64Scan(s, i + 1, quad_pos, pads, acc)
    ELSE B64Scan(s, i + 1, (quad_pos + 1) % 4, 0, Append(acc, s[i]))

b64decode(s) == B64Scan(s, 1, 0, 0, <<>>)

\* ---------------------------------------------------------------- messages
\* A part of a list content.  py is the Python type of the item; for a dict,
\* type is item.get("type"), text the "text" entry and image_url the
\* "image_url" entry ("absent": the key is missing).
Absent == [py |-> "absent", s |-> <<>>]
PyStr(s) == [py |-> "str", s |-> s]
PyNone == [py |-> "none", s |-> <<>>]
NoUrlField == [py |-> "absent", url |-> Absent]
UrlMap(u) == [py |-> "dict", url |-> u]

StrPart(s) == [py |-> "str", s |-> s, type |-> "absent", text |-> Absent,
               image_url |-> NoUrlField]
IntPart == [py |-> "int", s |-> <<>>, type |-> "absent", text |-> Absent,
            image_url |-> NoUrlField]
TextPart(t) == [py |-> "dict", s |-> <<>>, type |-> "text", text |-> t,
                image_url |-> NoUrlField]
ImagePart(f) == [py |-> "dict", s |-> <<>>, type |-> "image_url",
                 text |-> Absent, image_url |-> f]
AudioPart == [py |-> "dict", s |-> <<>>, type |-> "audio", text |-> Absent,
              image_url |-> NoUrlField]

DataUri(payload) == <<"data:image/png;base64", ",">> \o payload

\* data URIs whose payload both variants accept
GoodUrls == {DataUri(<<"A", "A", "A", "A">>), DataUri(<<"B", "B", "=", "=">>)}
\* data URIs the spec calls malformed: no separator, undecodable payload
NoCommaUrl == <<"data:image/png;base64">>
BadPadUrl == DataUri(<<"A">>)
MalformedUrls == {NoCommaUrl, BadPadUrl}
\* other urls: a second comma, characters outside the alphabet, not a data URI
HttpUrl == <<"http://host/a.png">>
OtherUrls == {DataUri(<<"A", "A", "=", "=", ",", "B">>), DataUri(<<"!">>), HttpUrl}
Urls == GoodUrls \cup MalformedUrls \cup OtherUrls

UrlPart(u) == ImagePart(UrlMap(PyStr(u)))
NotMapPart == ImagePart([py |-> "str", url |-> Absent])

\* the parts the extractor is run on
Parts ==
    {StrPart(<<"w1">>), IntPart, AudioPart,
     TextPart(PyStr(<<"w2">>)), TextPart(Absent), TextPart(PyNone),
     ImagePart(NoUrlField), NotMapPart,
     ImagePart(UrlMap(Absent)), ImagePart(UrlMap(PyNone))}
    \cup {UrlPart(u) : u \in Urls}

\* the parts a whole invocation of pipe is run on
PipeParts ==
    {StrPart(<<"w1">>), TextPart(PyStr(<<"w2">>)), NotMapPart,
     UrlPart(BadPadUrl), UrlPart(HttpUrl)}
    \cup {UrlPart(u) : u \in GoodUrls}

\* sequences of at most n elements of S
SeqsUpTo(S, n) == UNION {[1..k -> S] : k \in 0..n}

StrContent(s) == [py |-> "str", s |-> s, items |-> <<>>]
ListContent(ps) == [py |-> "list", s |-> <<>>, items |-> ps]
NoContent == [py |-> "absent", s |-> <<>>, items |-> <<>>]
NoneContent == [py |-> "none", s |-> <<>>, items |-> <<>>]

Msg(c) == [content |-> c]

\* message lists over a pool of parts: nothing, text only, or one list
\* content, alone or after a plain-text message
MessageListsOver(pool) ==
    {<<>>, <<Msg(StrContent(<<"w0">>))>>, <<Msg(NoContent)>>, <<Msg(NoneContent)>>}
    \cup {<<Msg(ListContent(ps))>> : ps \in SeqsUpTo(pool, MaxParts)}
    \cup {<<Msg(StrContent(<<"w0">>)), Msg(ListContent(<<p>>))>> : p \in pool}

MessageLists == MessageListsOver(Parts)
PipeMessageLists == MessageListsOver(PipeParts)


\* --------------------------------------------------------------- extractor
\* url = item.get("image_url", {}).get("url", "") for an image_url part:
\* the url string, or the AttributeError of .get on a str / .startswith on None
ImageUrlOf(item) ==
    IF item.image_url.py = "absent" THEN [raised |-> FALSE, url |-> <<>>]
    ELSE IF item.image_url.py # "dict" THEN [raised |-> TRUE, url |-> <<>>]
    ELSE IF item.image_url.url.py = "absent" THEN [raised |-> FALSE, url |-> <<>>]
    ELSE IF item.image_url.url.py # "str" THEN [raised |-> TRUE, url |-> <<>>]
    ELSE [raised |-> FALSE, url |-> item.image_url.url.s]

\* the try block of the ocr variant: split(",", 1)[1], then b64decode;
\* IndexError and ValueError are swallowed
ImageEntryOcr(url) ==
    LET pieces == SplitOnce(url) IN
    IF Len(pieces) < 2 THEN <<>>
    ELSE LET d == b64decode(pieces[2]) IN
         IF d.ok THEN <<d.data>> ELSE <<>>

\* the try block of the vision variant: split(",")[1], kept as it is;
\* IndexError is swallowed
ImageEntryVision(url) ==
    LET pieces == SplitAll(url) IN
    IF Len(pieces) < 2 THEN <<>> ELSE <<pieces[2]>>

ImageEntry(v, url) ==
    IF v = "ocr" THEN ImageEntryOcr(url) ELSE ImageEntryVision(url)

\* one iteration of "for item in content"
ExtractItem(v, acc, item) ==
    IF acc.raised THEN acc
    ELSE IF item.py = "dict" THEN
        IF item.type = "text" THEN
            [acc EXCEPT !.text_parts =
                Append(@, IF item.text.py = "absent" THEN PyStr(<<>>) ELSE item.text)]
        ELSE IF item.type = "image_url" THEN
            LET u == ImageUrlOf(item) IN
            IF u.raised
            THEN [acc EXCEPT !.raised = TRUE, !.exc = "AttributeError"]
            ELSE IF StartsWithDataImage(u.url)
            THEN [acc EXCEPT !.images = @ \o ImageEntry(v, u.url)]
            ELSE acc
        ELSE acc
    ELSE IF item.py = "str" THEN
        [acc EXCEPT !.text_parts = Append(@, PyStr(item.s))]
    ELSE acc

RECURSIVE ExtractItems(_, _, _)
ExtractItems(v, acc, items) ==
    IF Len(items) = 0 THEN acc
    ELSE ExtractItems(v, ExtractItem(v, acc, Head(items)), Tail(items))

\* one iteration of "for msg in messages"
ExtractMsg(v, acc, msg) ==
    IF acc.raised THEN acc
    ELSE IF msg.content.py = "absent" THEN
        [acc EXCEPT !.text_parts = Append(@, PyStr(<<>>))]
    ELSE IF msg.content.py = "str" THEN
        [acc EXCEPT !.text_parts = Append(@, PyStr(msg.content.s))]
    ELSE IF msg.content.py = "list" THEN ExtractItems(v, acc, msg.content.items)
    ELSE acc

RECURSIVE ExtractMsgs(_, _, _)
ExtractMsgs(v, acc, msgs) ==
    IF Len(msgs) = 0 THEN acc
    ELSE ExtractMsgs(v, ExtractMsg(v, acc, Head(msgs)), Tail(msgs))

\* _extract_images / _has_images: the loop, then " ".join(text_parts), which
\* raises TypeError when a collected text is not a str
ExtractImages(v, msgs) ==
    LET acc == ExtractMsgs(v, [raised |-> FALSE, exc |-> "", images |-> <<>>,
                               text_parts |-> <<>>], msgs)
    IN  IF acc.raised
        THEN [raised |-> TRUE, exc |-> acc.exc, images |-> <<>>, text |-> <<>>]
        ELSE IF \E i \in 1..Len(acc.text_parts) : acc.text_parts[i].py # "str"
        THEN [raised |-> TRUE, exc |-> "TypeError", images |-> <<>>, text |-> <<>>]
        ELSE [raised |-> FALSE, exc |-> "", images |-> acc.images,
              text |-> Join([i \in 1..Len(acc.text_parts) |-> acc.text_parts[i].s], " ")]

\* ------------------------------------------------------------------ stage 1
\* _ocr_image: what the helper returns for one image; lib is what PIL and
\* pytesseract do with it ("raise": Image.open or image_to_string raises)
OcrOutcomes == {[kind |-> "text", s |-> <<"t1">>], [kind |-> "text", s |-> <<>>],
                [kind |-> "raise", s |-> <<"cannot identify image file">>]}

OcrImage(available, lib) ==
    IF ~available THEN <<"Error: pytesseract not installed">>
    ELSE IF lib.kind = "raise" THEN <<"Error reading image: ">> \o lib.s
    ELSE lib.s

\* f"Error calling {model}: {str(e)}"
ErrorText(model, e) == <<"Error calling ", model, ": ", e>>

\* outcomes of requests.post + raise_for_status + response.json() + data.get
VisionOutcomes == {[kind |-> "ok", s |-> <<"d1">>], [kind |-> "ok", s |-> <<>>],
                   [kind |-> "raise", s |-> <<"ConnectionError">>],
                   [kind |-> "raise", s |-> <<"HTTPError 500">>]}

\* _call_ollama_sync: the response text, or the error string
CallOllamaSync(model, outcome) ==
    IF outcome.kind = "raise" THEN ErrorText(model, outcome.s[1]) ELSE outcome.s

VisionPrompt(um, text) ==
    <<"Describe this image in detail ...", "User's question:">>
    \o (IF um # <<>> THEN um ELSE text)

\* ----------------------------------------------------------- prompt builder
ImagePrompt(v, s1, um) ==
    IF v = "ocr"
    THEN <<"You are a legal reasoning assistant for Texas bar exam preparation.",
           "Here is the question extracted from the image:">> \o s1
         \o <<"User asks:">>
         \o (IF um # <<>> THEN um ELSE <<"What is the correct answer?">>)
         \o <<"Provide thorough legal analysis: 1..5">>
    ELSE <<"You are a legal reasoning assistant helping with Texas bar exam preparation.",
           "Based on this image content:">> \o s1
         \o <<"User's question:">>
         \o (IF um # <<>> THEN um ELSE <<"Analyze this and provide legal reasoning.">>)
         \o <<"Provide thorough legal analysis. If this is a multiple choice question: 1..5">>

BarePrompt(v, um) ==
    IF v = "ocr"
    THEN <<"You are a legal reasoning assistant for Texas bar exam preparation.",
           "Question:">> \o um \o <<"Provide thorough legal analysis: 1..4">>
    ELSE <<"You are a legal reasoning assistant helping with Texas bar exam preparation.",
           "Question:">> \o um
         \o <<"Provide thorough legal analysis. If this is a legal question: 1..4">>

\* variant of HasImages that tests the list against None, not for emptiness
HasImagesNotNone(imgs) == TRUE

\* "if images:" / "if has_images:" in pipe
HasImages(imgs) == Len(imgs) > 0

\* variant of ReasoningPrompt that picks the template by the stage-1 text
ReasoningPromptByText(v, imgs, s1, um) ==
    IF s1 # <<>> THEN ImagePrompt(v, s1, um) ELSE BarePrompt(v, um)

ReasoningPrompt(v, imgs, s1, um) ==
    IF HasImages(imgs) THEN ImagePrompt(v, s1, um) ELSE BarePrompt(v, um)

\* ------------------------------------------------------------- fragments
Frag(site, text) == [site |-> site, text |-> text]

InterpretHeader(v) ==
    IF v = "ocr" THEN Frag("header", <<"*Alice Paralegal reading image with Tesseract OCR...*">>)
    ELSE Frag("header", <<"*Analyzing image with llava:13b...*">>)

Stage1Fragment(v, s1) ==
    IF v = "ocr" THEN Frag("stage1", <<"**Extracted Text:**">> \o s1 \o <<"---">>)
    ELSE Frag("stage1", <<"**Image Analysis:**">> \o s1 \o <<"---">>)

TransitionHeader(v) ==
    IF v = "ocr" THEN Frag("transition", <<"*Analyzing with deepseek-r1:8b...*">>)
    ELSE Frag("transition", <<"*Processing with deepseek-r1:8b for legal reasoning...*">>)

\* ------------------------------------------------------------------ stage 2
\* a line of response.iter_lines(): json is what json.loads makes of it,
\* has_response is "response" in data, response is data["response"]
Line(j, h, r) == [json |-> j, has_response |-> h, response |-> r]
StreamLines ==
    {Line("empty", FALSE, <<>>), Line("invalid", FALSE, <<>>),
     Line("undecodable", FALSE, <<>>),
     Line("object", TRUE, <<"r1">>), Line("object", TRUE, <<"r2">>),
     Line("object", FALSE, <<>>),
     Line("number", FALSE, <<>>),
     Line("array", FALSE, <<>>), Line("array", TRUE, <<>>)}

\* the body of "for line in response.iter_lines()" for one line
LineStep(line) ==
    IF line.json = "empty" THEN [do |-> "skip", s |-> <<>>]
    ELSE IF line.json = "invalid" THEN [do |-> "skip", s |-> <<>>]
    ELSE IF line.json = "undecodable" THEN [do |-> "raise", s |-> <<"UnicodeDecodeError">>]
    ELSE IF line.json = "number" THEN [do |-> "raise", s |-> <<"TypeError">>]
    ELSE IF ~line.has_response THEN [do |-> "skip", s |-> <<>>]
    ELSE IF line.json = "object" THEN [do |-> "yield", s |-> line.response]
    ELSE [do |-> "raise", s |-> <<"TypeError">>]

\* failures of requests.post / raise_for_status
PostFailures == {"ConnectionError", "HTTPError 500"}
\* failures of iter_lines while the body is read
ReadFailures == {"ChunkedEncodingError"}

\* an entry of calls; ok: the call returned without raising inside
Call(kind, model, prompt, imgs, ok, result) ==
    [kind |-> kind, model |-> model, prompt |-> prompt, images |-> imgs,
     ok |-> ok, result |-> result]


\* ------------------------------------------------------------ the machine
InitOver(lists) ==
    /\ variant \in {"ocr", "vision"}
    /\ tesseract \in (IF variant = "ocr" THEN BOOLEAN ELSE {FALSE})
    /\ user_message \in {<<>>, <<"q">>}
    /\ messages \in lists
    /\ pc = "start"
    /\ images = <<>>
    /\ text_content = <<>>
    /\ all_text = <<>>
    /\ stage1_text = <<>>
    /\ out = <<>>
    /\ calls = <<>>
    /\ nlines = 0
    /\ exc = ""
    /\ stream_exc = ""

Init == InitOver(PipeMessageLists)

\* pipe, first statement: the extractor runs; messages is not read again
Extract ==
    /\ pc = "start"
    /\ LET r == ExtractImages(variant, messages) IN
       IF r.raised
       THEN /\ pc' = "raised"
            /\ exc' = r.exc
            /\ UNCHANGED <<images, text_content>>
       ELSE /\ pc' = (IF HasImages(r.images) THEN "has_images" ELSE "no_images")
            /\ images' = r.images
            /\ text_content' = r.text
            /\ exc' = exc
    /\ UNCHANGED <<variant, tesseract, user_message, messages, all_text,
                   stage1_text, out, calls, nlines, stream_exc>>

\* yield of the interpretation header
YieldInterpretHeader ==
    /\ pc = "has_images"
    /\ out' = Append(out, InterpretHeader(variant))
    /\ pc' = "stage1"
    /\ UNCHANGED <<variant, tesseract, user_message, messages, images,
                   text_content, all_text, stage1_text, calls, nlines, exc, stream_exc>>

\* ocr variant: one iteration of "for i, img_bytes in enumerate(images)"
OcrNextImage ==
    /\ pc = "stage1"
    /\ variant = "ocr"
    /\ Len(all_text) < Len(images)
    /\ \E lib \in OcrOutcomes :
        LET img == images[Len(all_text) + 1]
            ocr_text == OcrImage(tesseract, lib)
        IN  /\ all_text' = Append(all_text, ocr_text)
            /\ calls' = Append(calls, Call("ocr", "tesseract", <<>>, <<img>>,
                                           tesseract /\ lib.kind # "raise", ocr_text))
    /\ UNCHANGED <<variant, tesseract, user_message, messages, pc, images,
                   text_content, stage1_text, out, nlines, exc, stream_exc>>

\* ocr variant: the loop is over; join and yield the extracted text
YieldExtractedText ==
    /\ pc = "stage1"
    /\ variant = "ocr"
    /\ Len(all_text) = Len(images)
    /\ stage1_text' = Join(all_text, "\n\n")
    /\ out' = Append(out, Stage1Fragment(variant, stage1_text'))
    /\ pc' = "transition"
    /\ UNCHANGED <<variant, tesseract, user_message, messages, images,
                   text_content, all_text, calls, nlines, exc, stream_exc>>

\* variant of DescribeImages in which a failed request ends the invocation
DescribeImagesFatal ==
    /\ pc = "stage1"
    /\ variant = "vision"
    /\ \E o \in VisionOutcomes :
        LET prompt == VisionPrompt(user_message, text_content)
            image_description == CallOllamaSync(VISION_MODEL, o)
        IN  /\ stage1_text' = image_description
            /\ calls' = Append(calls, Call("vision", VISION_MODEL, prompt, images,
                                           o.kind # "raise", image_description))
            /\ pc' = (IF o.kind = "raise" THEN "done" ELSE "described")
            /\ out' = (IF o.kind = "raise"
                       THEN Append(out, Frag("error", image_description)) ELSE out)
    /\ UNCHANGED <<variant, tesseract, user_message, messages, images,
                   text_content, all_text, nlines, exc, stream_exc>>

\* vision variant: the one non-streaming request, then the yield of its text
DescribeImages ==
    /\ pc = "stage1"
    /\ variant = "vision"
    /\ \E o \in VisionOutcomes :
        LET prompt == VisionPrompt(user_message, text_content)
            image_description == CallOllamaSync(VISION_MODEL, o)
        IN  /\ stage1_text' = image_description
            /\ calls' = Append(calls, Call("vision", VISION_MODEL, prompt, images,
                                           o.kind # "raise", image_description))
    /\ pc' = "described"
    /\ UNCHANGED <<variant, tesseract, user_message, messages, images,
                   text_content, all_text, out, nlines, exc, stream_exc>>

YieldImageAnalysis ==
    /\ pc = "described"
    /\ out' = Append(out, Stage1Fragment(variant, stage1_text))
    /\ pc' = "transition"
    /\ UNCHANGED <<variant, tesseract, user_message, messages, images,
                   text_content, all_text, stage1_text, calls, nlines, exc, stream_exc>>

\* yield of the transition header
YieldTransition ==
    /\ pc = "transition"
    /\ out' = Append(out, TransitionHeader(variant))
    /\ pc' = "reason"
    /\ UNCHANGED <<variant, tesseract, user_message, messages, images,
                   text_content, all_text, stage1_text, calls, nlines, exc, stream_exc>>

\* variant of PostReasoning that posts before the transition header is yielded
PostReasoningBeforeTransition ==
    /\ pc \in {"transition", "no_images"}
    /\ LET prompt == ReasoningPrompt(variant, images, stage1_text, user_message) IN
       /\ calls' = Append(calls, Call("generate", REASONING_MODEL, prompt, <<>>,
                                      TRUE, <<>>))
       /\ \/ /\ pc' = "streaming"
             /\ out' = out
             /\ stream_exc' = stream_exc
          \/ \E e \in PostFailures :
             /\ out' = Append(out, Frag("error", ErrorText(REASONING_MODEL, e)))
             /\ stream_exc' = e
             /\ pc' = "done"
    /\ UNCHANGED <<variant, tesseract, user_message, messages, images,
                   text_content, all_text, stage1_text, nlines, exc>>

\* variant of PostReasoning that posts again when the request fails
PostReasoningRetry ==
    /\ pc \in {"reason", "no_images"}
    /\ Len(calls) < 6
    /\ LET prompt == ReasoningPrompt(variant, images, stage1_text, user_message) IN
       /\ calls' = Append(calls, Call("generate", REASONING_MODEL, prompt, <<>>,
                                      TRUE, <<>>))
       /\ \/ pc' = "streaming"
          \/ pc' = pc
    /\ UNCHANGED <<variant, tesseract, user_message, messages, images, out,
                   text_content, all_text, stage1_text, nlines, exc, stream_exc>>

\* the prompt is built and the streaming request is posted; a failure of
\* requests.post or raise_for_status is yielded as the only fragment
PostReasoning ==
    /\ pc \in {"reason", "no_images"}
    /\ LET prompt == ReasoningPrompt(variant, images, stage1_text, user_message) IN
       /\ calls' = Append(calls, Call("generate", REASONING_MODEL, prompt, <<>>,
                                      TRUE, <<>>))
       /\ \/ /\ pc' = "streaming"
             /\ out' = out
             /\ stream_exc' = stream_exc
          \/ \E e \in PostFailures :
             /\ out' = Append(out, Frag("error", ErrorText(REASONING_MODEL, e)))
             /\ stream_exc' = e
             /\ pc' = "done"
    /\ UNCHANGED <<variant, tesseract, user_message, messages, images,
                   text_content, all_text, stage1_text, nlines, exc>>

\* one line of response.iter_lines() is read and handled
ReadLine ==
    /\ pc = "streaming"
    /\ nlines < MaxLines
    /\ \E line \in StreamLines :
        LET r == LineStep(line) IN
        /\ nlines' = nlines + 1
        /\ IF r.do = "yield"
           THEN /\ out' = Append(out, Frag("chunk", r.s))
                /\ UNCHANGED <<pc, stream_exc>>
           ELSE IF r.do = "raise"
           THEN /\ out' = Append(out, Frag("error", ErrorText(REASONING_MODEL, r.s[1])))
                /\ stream_exc' = r.s[1]
                /\ pc' = "done"
           ELSE UNCHANGED <<out, pc, stream_exc>>
    /\ UNCHANGED <<variant, tesseract, user_message, messages, images,
                   text_content, all_text, stage1_text, calls, exc>>

\* iter_lines is exhausted: the generators return
StreamEnd ==
    /\ pc = "streaming"
    /\ pc' = "done"
    /\ UNCHANGED <<variant, tesseract, user_message, messages, images,
                   text_content, all_text, stage1_text, out, calls, nlines, exc, stream_exc>>

\* variant of StreamBroken that swallows the read failure
StreamBrokenSilent ==
    /\ pc = "streaming"
    /\ \E e \in ReadFailures : stream_exc' = e
    /\ pc' = "done"
    /\ UNCHANGED <<variant, tesseract, user_message, messages, images, out,
                   text_content, all_text, stage1_text, calls, nlines, exc>>

\* iter_lines raises while the body is read
StreamBroken ==
    /\ pc = "streaming"
    /\ \E e \in ReadFailures :
        /\ out' = Append(out, Frag("error", ErrorText(REASONING_MODEL, e)))
        /\ stream_exc' = e
    /\ pc' = "done"
    /\ UNCHANGED <<variant, tesseract, user_message, messages, images,
                   text_content, all_text, stage1_text, calls, nlines, exc>>

Next ==
    \/ Extract
    \/ YieldInterpretHeader
    \/ OcrNextImage
    \/ YieldExtractedText
    \/ DescribeImages
    \/ YieldImageAnalysis
    \/ YieldTransition
    \/ PostReasoning
    \/ ReadLine
    \/ StreamEnd
    \/ StreamBroken

Spec == Init /\ [][Next]_vars

\* the extractor alone, on every message list
ExtractInit == InitOver(MessageLists)
ExtractSpec == ExtractInit /\ [][Extract]_vars


\* ------------------------------------------------------------- properties
StageOneCalls == SelectSeq(calls, LAMBDA c : c.kind \in {"ocr", "vision"})
GenerateCalls == SelectSeq(calls, LAMBDA c : c.kind = "generate")
Contains(text, tok) == \E i \in 1..Len(text) : text[i] = tok
\* every stage-1 entry of calls lies before every stage-2 entry
StageOneBeforeStageTwo ==
    \A j, k \in 1..Len(calls) :
        (calls[j].kind = "generate" /\ calls[k].kind \in {"ocr", "vision"}) => k < j
IsImageTemplate(p) ==
    Len(p) >= 2 /\ p[2] \in {"Here is the question extracted from the image:",
                             "Based on this image content:"}
IsBareTemplate(p) == Len(p) >= 2 /\ p[2] = "Question:"
\* the pieces of a string between its blank-line separators
RECURSIVE SplitBlankLines(_)
SplitBlankLines(s) ==
    IF \A i \in 1..Len(s) : s[i] # "\n\n" THEN <<s>>
    ELSE LET k == CHOOSE i \in 1..Len(s) :
                     s[i] = "\n\n" /\ \A j \in 1..(i - 1) : s[j] # "\n\n"
         IN  <<SubSeq(s, 1, k - 1)>> \o SplitBlankLines(SubSeq(s, k + 1, Len(s)))

\* C1: when the messages yield at least one image, the fragments come in the
\* order interpretation header, one stage-1 text fragment, transition header,
\* then only stage-2 fragments; the stage-2 request is issued after stage 1
\* has completed and after the three leading fragments.
C1_FragmentOrder ==
    (pc \notin {"start", "raised"} /\ Len(images) >= 1) =>
        /\ \A i \in 1..Len(out) :
            /\ (i = 1) => out[i].site = "header"
            /\ (i = 2) => /\ out[i].site = "stage1"
                          /\ SubSeq(out[i].text, 2, Len(out[i].text) - 1) = stage1_text
            /\ (i = 3) => out[i].site = "transition"
            /\ (i >= 4) => out[i].site \in {"chunk", "error"}
        /\ StageOneBeforeStageTwo
        /\ Len(GenerateCalls) >= 1 =>
            /\ Len(out) >= 3
            /\ Len(StageOneCalls) =
                   (IF variant = "ocr" THEN Len(images) ELSE 1)
        /\ pc = "done" => Len(GenerateCalls) >= 1

C1_Witness ==
    /\ pc = "done"
    /\ Len(images) = 2
    /\ Len(out) = 5
    /\ out[4].site = "chunk"
    /\ out[5].site = "chunk"

\* C2: when extraction yields zero images, stage 1 is never invoked, no header
\* or stage-1 fragment is emitted, and the prompt of the stage-2 request is the
\* bare-question template.
C2_NoImagesNoStageOne ==
    (pc \notin {"start", "raised"} /\ Len(images) = 0) =>
        /\ Len(StageOneCalls) = 0
        /\ \A i \in 1..Len(out) : out[i].site \in {"chunk", "error"}
        /\ \A i \in 1..Len(calls) :
            /\ IsBareTemplate(calls[i].prompt)
            /\ ~IsImageTemplate(calls[i].prompt)
            /\ SubSeq(calls[i].prompt, 3, Len(calls[i].prompt) - 1) = user_message

C2_Witness ==
    /\ pc = "done"
    /\ Len(images) = 0
    /\ Len(messages) = 1
    /\ messages[1].content.py = "list"
    /\ Len(messages[1].content.items) = 2
    /\ Len(GenerateCalls) = 1
    /\ Len(out) = 2
    /\ out[1].site = "chunk"

\* C3: no exception ever leaves pipe, whatever the shape of the messages.
C3_NoExceptionEscapes == pc # "raised" /\ exc = ""

\* C4: a failure of the streamer shows as exactly one error fragment that names
\* the reasoning model, is the last fragment and ends the sequence; when the
\* request itself fails, it is the only fragment the streamer produces.
C4_OneFinalErrorFragment ==
    /\ \A i \in 1..Len(out) :
        out[i].site = "error" =>
            /\ i = Len(out)
            /\ pc = "done"
            /\ stream_exc # ""
            /\ Contains(out[i].text, REASONING_MODEL)
    /\ stream_exc # "" =>
        /\ pc = "done"
        /\ Len(out) >= 1
        /\ out[Len(out)].site = "error"
        /\ Contains(out[Len(out)].text, stream_exc)
    /\ stream_exc \in PostFailures =>
        Len(SelectSeq(out, LAMBDA f : f.site \in {"chunk", "error"})) = 1

C4_Witness ==
    /\ stream_exc \in ReadFailures
    /\ Len(out) = 2
    /\ out[1].site = "chunk"
    /\ out[2].site = "error"

\* C5: reading a line of a successful streaming response either yields that
\* line's response field or skips the line; it never ends the stream and never
\* produces an error fragment.
C5_LinesNeverAbort ==
    [][(pc = "streaming" /\ nlines' = nlines + 1) =>
          /\ pc' = "streaming"
          /\ \/ out' = out
             \/ \E l \in StreamLines :
                 /\ l.json = "object"
                 /\ l.has_response
                 /\ out' = Append(out, Frag("chunk", l.response))]_vars

\* C6: a data:image part that has no comma or an undecodable payload adds no
\* image and raises nothing; the extraction gives what it gives with that
\* part removed.
IsMalformedImagePart(item) ==
    /\ item.py = "dict"
    /\ item.type = "image_url"
    /\ item.image_url.py = "dict"
    /\ item.image_url.url.py = "str"
    /\ StartsWithDataImage(item.image_url.url.s)
    /\ LET k == FirstComma(item.image_url.url.s, 1)
           u == item.image_url.url.s
       IN  k = 0 \/ ~b64decode(SubSeq(u, k + 1, Len(u))).ok

WithoutItem(msgs, m, k) ==
    [msgs EXCEPT ![m].content.items =
        SubSeq(@, 1, k - 1) \o SubSeq(@, k + 1, Len(@))]

C6_MalformedImageDropped ==
    pc # "start" =>
        \A m \in 1..Len(messages) :
            \A k \in 1..Len(messages[m].content.items) :
                IsMalformedImagePart(messages[m].content.items[k]) =>
                    LET r == ExtractImages(variant, WithoutItem(messages, m, k)) IN
                    /\ r.raised = (pc = "raised")
                    /\ ~r.raised => (images = r.images /\ text_content = r.text)

\* C7 as stated: at most one stage-1 call, then exactly one stage-2 request.
C7_AtMostOneStageOneCall ==
    /\ Len(StageOneCalls) <= 1
    /\ Len(GenerateCalls) <= 1
    /\ pc = "done" => Len(GenerateCalls) = 1
    /\ StageOneBeforeStageTwo

\* C7 amended: stage 1 is one vision request, or one OCR helper call per
\* extracted image (each image once, in order); it is followed by at most one
\* stage-2 request, exactly one when pipe runs to its end; nothing is issued
\* twice, nothing of stage 1 after stage 2, and an invocation whose extractor
\* raises issues no call at all.
C7_OnePassThenOneRequest ==
    /\ Len(GenerateCalls) <= 1
    /\ pc = "done" => Len(GenerateCalls) = 1
    /\ pc = "raised" => calls = <<>>
    /\ StageOneBeforeStageTwo
    /\ variant = "vision" => Len(StageOneCalls) <= 1
    /\ variant = "ocr" =>
        /\ Len(StageOneCalls) <= Len(images)
        /\ \A i \in 1..Len(StageOneCalls) : StageOneCalls[i].images = <<images[i]>>
    /\ Len(GenerateCalls) = 1 =>
        Len(StageOneCalls) =
            (IF variant = "ocr" THEN Len(images)
             ELSE IF Len(images) >= 1 THEN 1 ELSE 0)

C7_Witness ==
    /\ pc = "done"
    /\ variant = "ocr"
    /\ Len(images) = 2
    /\ Len(StageOneCalls) = 2
    /\ Len(GenerateCalls) = 1

\* C8 as stated: the image-analysis template is used exactly when the stage-1
\* text is non-empty, the bare-question template exactly when it is empty.
C8_TemplateByStageOneText ==
    \A i \in 1..Len(calls) :
        calls[i].kind = "generate" =>
            /\ IsImageTemplate(calls[i].prompt) <=> (stage1_text # <<>>)
            /\ IsBareTemplate(calls[i].prompt) <=> (stage1_text = <<>>)

\* C8 amended: the image-analysis template is used exactly when the extractor
\* returned at least one image, whatever the stage-1 text (also when it is
\* empty), and the bare-question template exactly when it returned none.
C8_TemplateByImages ==
    \A i \in 1..Len(calls) :
        calls[i].kind = "generate" =>
            /\ IsImageTemplate(calls[i].prompt) <=> (Len(images) >= 1)
            /\ IsBareTemplate(calls[i].prompt) <=> (Len(images) = 0)

C8_Witness ==
    /\ Len(GenerateCalls) = 1
    /\ Len(images) >= 1
    /\ stage1_text = <<>>
    /\ user_message = <<>>
    /\ IsImageTemplate(GenerateCalls[1].prompt)

\* C9: in the ocr variant the helper runs once per image in input order and
\* the stage-1 text is the results joined by blank lines in that order, one
\* per image, an error string standing at the position of its image.
C9_OcrResultsInOrder ==
    variant = "ocr" =>
        /\ Len(all_text) = Len(StageOneCalls)
        /\ \A i \in 1..Len(StageOneCalls) :
            /\ StageOneCalls[i].images = <<images[i]>>
            /\ all_text[i] = StageOneCalls[i].result
            /\ ~StageOneCalls[i].ok =>
                /\ Len(StageOneCalls[i].result) >= 1
                /\ StageOneCalls[i].result[1] \in
                       {"Error: pytesseract not installed", "Error reading image: "}
        /\ (pc \in {"transition", "reason", "streaming", "done"} /\ Len(images) >= 1) =>
            /\ Len(StageOneCalls) = Len(images)
            /\ SplitBlankLines(stage1_text) =
                   [i \in 1..Len(images) |-> StageOneCalls[i].result]
            /\ out[2] = Stage1Fragment("ocr", stage1_text)

C9_Witness ==
    /\ variant = "ocr"
    /\ pc = "done"
    /\ Len(images) = 2
    /\ images[1] # images[2]
    /\ ~StageOneCalls[1].ok
    /\ StageOneCalls[2].ok
    /\ StageOneCalls[2].result = <<>>

\* C10: in the vision variant a failed stage-1 request does not end the
\* invocation: its result is one error string naming the vision model, which
\* is yielded as the image analysis, the transition header follows, and the
\* stage-2 request is issued once with that string as the image content; the
\* vision request is not issued again.
C10_VisionFailureContinues ==
    (variant = "vision" /\ Len(StageOneCalls) >= 1 /\ ~StageOneCalls[1].ok) =>
        /\ Len(StageOneCalls) = 1
        /\ Len(stage1_text) = 4
        /\ stage1_text[1] = "Error calling "
        /\ stage1_text[2] = VISION_MODEL
        /\ stage1_text = StageOneCalls[1].result
        /\ pc # "raised"
        /\ \A i \in 1..Len(out) : out[i].site = "error" => i >= 4
        /\ Len(GenerateCalls) <= 1
        /\ pc = "done" =>
            /\ Len(out) >= 3
            /\ out[2].site = "stage1"
            /\ SubSeq(out[2].text, 2, 5) = stage1_text
            /\ out[3].site = "transition"
            /\ Len(GenerateCalls) = 1
            /\ IsImageTemplate(GenerateCalls[1].prompt)
            /\ SubSeq(GenerateCalls[1].prompt, 3, 6) = stage1_text

C10_Witness ==
    /\ variant = "vision"
    /\ pc = "done"
    /\ Len(StageOneCalls) = 1
    /\ ~StageOneCalls[1].ok
    /\ Len(GenerateCalls) = 1
    /\ Len(out) = 4
    /\ out[4].site = "chunk"

=============================================================================
